---- MODULE Spec2Model ----
(***************************************************************************)
(* StockVision: the forecasting core (model_engine.StockPredictor), the    *)
(* news trust / sentiment pipeline (news_manager) and the Streamlit script *)
(* (main.py) that drives them.                                             *)
(*                                                                         *)
(* Two specifications share the operators below:                           *)
(*   Spec     one StockPredictor object and the calls a caller can make on *)
(*            it (prepare_data, train, predict_future), in any order;      *)
(*   AppSpec  reruns of the main.py script, one run per user interaction.  *)
(*                                                                         *)
(* Numbers.  Prices are small naturals.  A min-max scaled value v in [0,1] *)
(* is held as the integer v * Grid, Grid being a common multiple of every  *)
(* possible column range, so that scaling is exact.  A real price produced *)
(* by inverse scaling is held as price * Grid.  Sentiment scores are held  *)
(* in units of 0.05 (ScoreUnit) and probabilities in hundredths.           *)
(* Python indices are 0-based, the sequences here 1-based.                 *)
(***************************************************************************)
EXTENDS Integers, Sequences, FiniteSets, TLC

VARIABLES predictor, builds, last, app

vars == <<predictor, builds, last, app>>

----------------------------------------------------------------------------
(* Bounds of the model *)

MaxRows == 3        \* rows of a frame handed to StockPredictor
MaxVal == 1         \* largest cell value of a frame
MaxLookback == 2    \* lookback is 1 or MaxLookback (the code's default is 60)
MaxDays == 2        \* predict_future(days) with days 0, 1 or MaxDays
MaxBuilds == 2      \* build_model calls on one predictor
NewsLimit == 2      \* articles kept per fetch (the code keeps 10)
DefaultLookback == 2 \* StockPredictor's default lookback (the code's is 60)
RsiLength == 2      \* ta.rsi length (the code's is 14)
MacdSlow == 3       \* ta.macd slow window (the code's is 26)
MacdSignal == 2     \* ta.macd signal window (the code's is 9)
BBLength == 2       \* ta.bbands length (the code's is 20)
MaxHorizon == 8     \* largest forecast horizon of the slider (the code's is 90)
MaxRuns == 2        \* runs of the script in one browser session
ProbSteps == 100    \* softmax outputs are multiples of 1/ProbSteps

(* Program constants *)

MinHorizon == 7     \* the slider's min_value
SentimentRows == 5  \* df.iloc[-5:] receives the aggregate sentiment
TrustThreshold == 6000   \* confidence > 0.60, in units of 1/10000
LabelThreshold == 5      \* score > 0.05 / < -0.05, in hundredths

----------------------------------------------------------------------------
(* Small helpers *)

Range(s) == {s[i] : i \in 1..Len(s)}

SetMin(S) == CHOOSE v \in S : \A u \in S : v <= u

SetMax(S) == CHOOSE v \in S : \A u \in S : v >= u

RECURSIVE SumSeq(_)
SumSeq(s) == IF s = <<>> THEN 0 ELSE Head(s) + SumSeq(Tail(s))

RECURSIVE Gcd(_, _)
Gcd(a, b) == IF b = 0 THEN a ELSE Gcd(b, a % b)

RECURSIVE LcmUpTo(_)
LcmUpTo(n) == IF n <= 1 THEN 1 ELSE LET l == LcmUpTo(n - 1) IN (l * n) \div Gcd(l, n)

\* v in [0,1] is held as v * Grid; every column range 1..MaxVal divides Grid
Grid == LcmUpTo(MaxVal)

\* the positions of s, in order, whose element satisfies Keep
RECURSIVE KeptPositions(_, _, _)
KeptPositions(s, Keep(_), i) ==
    IF i > Len(s) THEN <<>>
    ELSE (IF Keep(s[i]) THEN <<i>> ELSE <<>>) \o KeptPositions(s, Keep, i + 1)

\* 1-based position of name in the column list, 0 when absent
IndexOf(cols, name) ==
    IF name \in Range(cols) THEN CHOOSE i \in 1..Len(cols) : cols[i] = name ELSE 0

----------------------------------------------------------------------------
(* Frames.  A frame is [cols |-> column names, rows |-> rows], each row a  *)
(* sequence of cells aligned with cols.                                    *)

\* columns whose dtype is numeric; 'Date' holds date objects, 'Symbol' text
NumericNames ==
    {"Open", "Close", "Volume", "RSI", "MACD", "MACDs", "MidBand", "Sentiment"}

ProjectCols(df, keep) ==
    [cols |-> [j \in 1..Len(keep) |-> df.cols[keep[j]]],
     rows |-> [i \in 1..Len(df.rows) |->
                  [j \in 1..Len(keep) |-> df.rows[i][keep[j]]]]]

NotDate(name) == name # "Date"

IsNumeric(name) == name \in NumericNames

\* clean_df.drop(columns=['Date']) when the column is there
DropDate(df) ==
    IF "Date" \in Range(df.cols)
    THEN ProjectCols(df, KeptPositions(df.cols, NotDate, 1))
    ELSE df

\* clean_df.select_dtypes(include=['number'])
SelectNumeric(df) == ProjectCols(df, KeptPositions(df.cols, IsNumeric, 1))

None == [trained |-> FALSE]

\* a MinMaxScaler on which fit has not succeeded
Unfit == [fitted |-> FALSE, data_min |-> <<>>, data_range |-> <<>>]

\* StockPredictor.__init__(df, lookback)
NewPredictor(df, lookback) ==
    [raw_df |-> SelectNumeric(DropDate(df)),
     lookback |-> lookback,
     scaler |-> Unfit,
     model |-> None,
     target_scaler |-> Unfit]

----------------------------------------------------------------------------
(* sklearn's MinMaxScaler(feature_range=(0, 1)) on a matrix m of >= 1 rows *)

Column(m, c) == [i \in 1..Len(m) |-> m[i][c]]

MinMaxFit(m) ==
    LET F == Len(m[1]) IN
    [fitted |-> TRUE,
     data_min |-> [c \in 1..F |-> SetMin(Range(Column(m, c)))],
     data_range |-> [c \in 1..F |->
                        SetMax(Range(Column(m, c))) - SetMin(Range(Column(m, c)))]]

\* a zero range scales by 1 (sklearn's _handle_zeros_in_scale)
HandleZeros(r) == IF r = 0 THEN 1 ELSE r

\* (x - data_min) / data_range, held as a multiple of 1/Grid
ScaleValue(sc, c, x) == ((x - sc.data_min[c]) * Grid) \div HandleZeros(sc.data_range[c])

Transform(sc, m) ==
    [i \in 1..Len(m) |-> [c \in 1..Len(m[i]) |-> ScaleValue(sc, c, m[i][c])]]

\* inverse_transform of one scaled value v (held as v * Grid): the price * Grid
InverseValue(sc, c, v) == v * HandleZeros(sc.data_range[c]) + sc.data_min[c] * Grid

----------------------------------------------------------------------------
(* StockPredictor.prepare_data *)

\* a faulty close_idx that is the first column whatever the frame holds
CloseIdxFirstColumn(df) == 1

\* close_idx: the position of 'Close', else the fallback column 0 (here 1)
CloseIdx(df) == IF "Close" \in Range(df.cols) THEN IndexOf(df.cols, "Close") ELSE 1

\* a faulty loop, range(lookback, len(scaled_data) - 1), that loses the last
\* example: C9 must tell it from the loop of the code
NumExamplesShort(T, L) == IF T > L + 1 THEN T - L - 1 ELSE 0

\* for i in range(lookback, len(scaled_data)): the number of iterations
NumExamples(T, L) == IF T > L THEN T - L ELSE 0

\* a faulty slice, scaled_data[i-lookback+1:i+1], that holds the label's row
WindowAtShifted(scaled, L, k) == SubSeq(scaled, k + 1, k + L)

\* X.append(scaled_data[i-lookback:i]) for the k-th iteration, i = lookback+k-1
WindowAt(scaled, L, k) == SubSeq(scaled, k, k + L - 1)

\* y.append(scaled_data[i, close_idx]) for the k-th iteration
LabelAt(scaled, L, k, ci) == scaled[L + k][ci]

\* the outcome of one prepare_data call on predictor p
PrepareData(p) ==
    LET df == p.raw_df
        T == Len(df.rows)
        F == Len(df.cols)
    IN  IF T = 0 \/ F = 0
        THEN \* scaler.fit_transform resets the scaler, then rejects the empty array
             [err |-> "ValueError", scaler |-> Unfit, target_scaler |-> p.target_scaler,
              X |-> <<>>, y |-> <<>>, scaled_data |-> <<>>, close_idx |-> 0, fits |-> 0]
        ELSE LET sc == MinMaxFit(df.rows)
                 scaled == Transform(sc, df.rows)
                 ci == CloseIdx(df)
                 tsc == MinMaxFit([i \in 1..T |-> <<df.rows[i][ci]>>])
                 n == NumExamples(T, p.lookback)
             IN  [err |-> "none", scaler |-> sc, target_scaler |-> tsc,
                  X |-> [k \in 1..n |-> WindowAt(scaled, p.lookback, k)],
                  y |-> [k \in 1..n |-> LabelAt(scaled, p.lookback, k, ci)],
                  scaled_data |-> scaled, close_idx |-> ci, fits |-> 1]

\* a faulty call that also leaves the model's weights changed (a prediction
\* made in training mode)
AfterPrepareTouchingModel(p, pd) ==
    [p EXCEPT !.scaler = pd.scaler, !.target_scaler = pd.target_scaler,
              !.model = IF @.trained THEN [@ EXCEPT !.w = 1 - @] ELSE @]

\* the predictor once prepare_data has run: both scalers hold their new fit,
\* raw_df, lookback and model are as they were
AfterPrepare(p, pd) ==
    [p EXCEPT !.scaler = pd.scaler, !.target_scaler = pd.target_scaler]

\* np.array(X).shape: (0,) for an empty list, else (examples, lookback, features)
Shape(X) == IF Len(X) = 0 THEN <<0>> ELSE <<Len(X), Len(X[1]), Len(X[1][1])>>

----------------------------------------------------------------------------
(* StockPredictor.build_model / train *)

\* the Sequential model build_model assigns to self.model, after fit has
\* drawn its weights: gen numbers the build, w stands for the fitted weights
BuildModel(gen, w, input_shape) ==
    [trained |-> TRUE, gen |-> gen, w |-> w, input_shape |-> input_shape]

\* a faulty train that goes on fitting the model it already has
TrainIncremental(p, gen, w) ==
    LET pd == PrepareData(p)
        q == AfterPrepare(p, pd)
    IN  IF pd.err # "none"
        THEN [err |-> pd.err, p |-> q, built |-> FALSE, fitted |-> FALSE, fits |-> pd.fits]
        ELSE IF Len(Shape(pd.X)) < 3
        THEN [err |-> "IndexError", p |-> q, built |-> FALSE, fitted |-> FALSE,
              fits |-> pd.fits]
        ELSE IF p.model.trained
        THEN [err |-> "none",
              p |-> [q EXCEPT !.model = [@ EXCEPT !.w = (@ + w) % 2]],
              built |-> FALSE, fitted |-> TRUE, fits |-> pd.fits]
        ELSE [err |-> "none",
              p |-> [q EXCEPT !.model =
                        BuildModel(gen, w, <<Shape(pd.X)[2], Shape(pd.X)[3]>>)],
              built |-> TRUE, fitted |-> TRUE, fits |-> pd.fits]

\* the outcome of train() when the build would be number gen and fit yields w
Train(p, gen, w) ==
    LET pd == PrepareData(p)
        q == AfterPrepare(p, pd)
    IN  IF pd.err # "none"
        THEN [err |-> pd.err, p |-> q, built |-> FALSE, fitted |-> FALSE, fits |-> pd.fits]
        ELSE IF Len(Shape(pd.X)) < 3
        THEN \* X.shape[1] on shape (0,)
             [err |-> "IndexError", p |-> q, built |-> FALSE, fitted |-> FALSE,
              fits |-> pd.fits]
        ELSE [err |-> "none",
              p |-> [q EXCEPT !.model =
                        BuildModel(gen, w, <<Shape(pd.X)[2], Shape(pd.X)[3]>>)],
              built |-> TRUE, fitted |-> TRUE, fits |-> pd.fits]

----------------------------------------------------------------------------
(* StockPredictor.predict_future *)

\* self.model.predict(current_batch)[0, 0]: a fixed function of the fitted
\* weights and of every cell of the window, in [0, 1] (held * Grid)
ModelPredict(m, batch) ==
    (m.w + SumSeq([r \in 1..Len(batch) |-> r * SumSeq(batch[r])])) % (Grid + 1)

\* a faulty iteration with a convergence check: it stops appending once a
\* prediction repeats the previous one, so C8 must tell it from the code's
RolloutStepConverging(st, p, ci) ==
    LET next_pred_scaled == ModelPredict(p.model, st.current_batch)
        pred_inverse == InverseValue(p.target_scaler, 1, next_pred_scaled)
        last_row == st.current_batch[Len(st.current_batch)]
        new_row == [last_row EXCEPT ![ci] = next_pred_scaled]
        n == Len(st.future_predictions)
    IN  IF n >= 1 /\ st.future_predictions[n] = pred_inverse
        THEN st
        ELSE [current_batch |-> Tail(st.current_batch) \o <<new_row>>,
              future_predictions |-> Append(st.future_predictions, pred_inverse),
              scaled_preds |-> Append(st.scaled_preds, next_pred_scaled),
              windows |-> Append(st.windows, Tail(st.current_batch) \o <<new_row>>),
              iters |-> st.iters + 1,
              fits |-> st.fits]

\* a faulty iteration that writes the inverse-transformed price, not the
\* scaled prediction, into the new row
RolloutStepWritingPrice(st, p, ci) ==
    LET next_pred_scaled == ModelPredict(p.model, st.current_batch)
        pred_inverse == InverseValue(p.target_scaler, 1, next_pred_scaled)
        last_row == st.current_batch[Len(st.current_batch)]
        new_row == [last_row EXCEPT ![ci] = pred_inverse]
    IN  [current_batch |-> Tail(st.current_batch) \o <<new_row>>,
         future_predictions |-> Append(st.future_predictions, pred_inverse),
         scaled_preds |-> Append(st.scaled_preds, next_pred_scaled),
         windows |-> Append(st.windows, Tail(st.current_batch) \o <<new_row>>),
         iters |-> st.iters + 1,
         fits |-> st.fits]

\* one iteration of the rollout loop on state st: st.windows lists the
\* window before each iteration and after the last, st.scaled_preds the
\* model's outputs
RolloutStep(st, p, ci) ==
    LET next_pred_scaled == ModelPredict(p.model, st.current_batch)
        pred_inverse == InverseValue(p.target_scaler, 1, next_pred_scaled)
        last_row == st.current_batch[Len(st.current_batch)]
        new_row == [last_row EXCEPT ![ci] = next_pred_scaled]
    IN  [current_batch |-> Tail(st.current_batch) \o <<new_row>>,
         future_predictions |-> Append(st.future_predictions, pred_inverse),
         scaled_preds |-> Append(st.scaled_preds, next_pred_scaled),
         windows |-> Append(st.windows, Tail(st.current_batch) \o <<new_row>>),
         iters |-> st.iters + 1,
         fits |-> st.fits]

\* for i in range(days)
RECURSIVE Rollout(_, _, _, _)
Rollout(st, n, p, ci) ==
    IF n <= 0 THEN st ELSE Rollout(RolloutStep(st, p, ci), n - 1, p, ci)

\* a faulty seed, scaled_data[-lookback-1:-1], that misses the latest row
LastRowsBeforeLatest(m, L) ==
    IF Len(m) <= L THEN m ELSE SubSeq(m, Len(m) - L, Len(m) - 1)

\* scaled_data[-lookback:]: the last lookback rows (all of them when fewer)
LastRows(m, L) == IF Len(m) <= L THEN m ELSE SubSeq(m, Len(m) - L + 1, Len(m))

\* the outcome of predict_future(days) on predictor p
PredictFuture(p, days) ==
    LET pd == PrepareData(p)
        q == AfterPrepare(p, pd)
        fail(e) == [err |-> e, p |-> q, future_predictions |-> <<>>, iters |-> 0,
                    scaled_preds |-> <<>>,
                    windows |-> <<>>, fits |-> pd.fits, loop_fits |-> 0]
    IN  IF pd.err # "none" THEN fail(pd.err)
        ELSE IF Len(LastRows(pd.scaled_data, p.lookback)) # p.lookback
        THEN fail("ValueError")      \* reshape(1, lookback, F) of fewer rows
        ELSE IF "Close" \notin Range(p.raw_df.cols)
        THEN fail("KeyError")        \* columns.get_loc('Close')
        ELSE IF days >= 1 /\ ~p.model.trained
        THEN fail("AttributeError")  \* None.predict in the first iteration
        ELSE LET st0 == [current_batch |-> LastRows(pd.scaled_data, p.lookback),
                         future_predictions |-> <<>>, scaled_preds |-> <<>>,
                         windows |-> <<LastRows(pd.scaled_data, p.lookback)>>,
                         iters |-> 0, fits |-> 0]
                 ci == IndexOf(p.raw_df.cols, "Close")
                 st == Rollout(st0, days, q, ci)
             IN  [err |-> "none", p |-> q,
                  future_predictions |-> st.future_predictions,
                  iters |-> st.iters,
                  scaled_preds |-> st.scaled_preds,
                  windows |-> st.windows,
                  fits |-> pd.fits, loop_fits |-> st.fits]

----------------------------------------------------------------------------
(* The frames and calls of Spec *)

\* column layouts of the frames handed to StockPredictor
Layouts ==
    {<<"Close", "Symbol">>,
     <<"Date", "Open", "Close">>,
     <<"Date", "Open", "Volume">>}

\* the cell of column name in row i of the frame generated by series s
CellOf(name, s, i) ==
    CASE name = "Date" -> i
      [] name = "Symbol" -> "TICK"
      [] name = "Close" -> s[i]
      [] name = "Open" -> (s[i] + i) % (MaxVal + 1)
      [] OTHER -> (MaxVal + i - s[i]) % (MaxVal + 1)

MkFrame(layout, s) ==
    [cols |-> layout,
     rows |-> [i \in 1..Len(s) |-> [j \in 1..Len(layout) |-> CellOf(layout[j], s, i)]]]

Series(maxRows) == UNION {[1..T -> 0..MaxVal] : T \in 0..maxRows}

\* the lookback values and horizons a caller passes
Lookbacks == {1, MaxLookback}

DaysChoices == {0, MaxDays}

\* model.fit starts from random weights: its outcome is one of these
Weights == {0, 1}

InputFrames == {MkFrame(layout, s) : layout \in Layouts, s \in Series(MaxRows)}

\* no call before, or another call than predict_future(days)
NoForecast == [has |-> FALSE, days |-> 0, err |-> "none", future_predictions |-> <<>>]

NoCall ==
    [op |-> "none", err |-> "none", days |-> 0, X |-> <<>>, y |-> <<>>,
     scaled_data |-> <<>>, future_predictions |-> <<>>, iters |-> 0,
     scaled_preds |-> <<>>,
     windows |-> <<>>, fits |-> 0, loop_fits |-> 0, model_before |-> None,
     prev |-> NoForecast]

\* what predict_future(days) records of the call before it: its outcome,
\* when it was predict_future with the same days
PrevForecast(l, days) ==
    IF l.op = "predict_future" /\ l.days = days
    THEN [has |-> TRUE, days |-> l.days, err |-> l.err,
          future_predictions |-> l.future_predictions]
    ELSE NoForecast

AppIdle == [run |-> 0]

Init ==
    /\ \E df \in InputFrames, L \in Lookbacks : predictor = NewPredictor(df, L)
    /\ builds = 0
    /\ last = NoCall
    /\ app = AppIdle

\* a direct call of prepare_data()
CallPrepareData ==
    /\ LET pd == PrepareData(predictor) IN
         /\ predictor' = AfterPrepare(predictor, pd)
         /\ last' = [NoCall EXCEPT !.op = "prepare_data", !.err = pd.err, !.X = pd.X,
                                   !.y = pd.y, !.scaled_data = pd.scaled_data,
                                   !.fits = pd.fits,
                                   !.model_before = predictor.model]
    /\ UNCHANGED <<builds, app>>

\* a call of train()
CallTrain ==
    /\ builds < MaxBuilds
    /\ \E w \in Weights :
         LET r == Train(predictor, builds + 1, w) IN
         /\ predictor' = r.p
         /\ builds' = IF r.built THEN builds + 1 ELSE builds
         /\ last' = [NoCall EXCEPT !.op = "train", !.err = r.err, !.fits = r.fits,
                                   !.model_before = predictor.model]
    /\ UNCHANGED app

\* a call of predict_future(days)
CallPredictFuture ==
    /\ \E days \in DaysChoices :
         LET r == PredictFuture(predictor, days) IN
         /\ predictor' = r.p
         /\ last' = [NoCall EXCEPT !.op = "predict_future", !.err = r.err,
                                   !.days = days,
                                   !.future_predictions = r.future_predictions,
                                   !.iters = r.iters, !.windows = r.windows,
                                   !.scaled_preds = r.scaled_preds,
                                   !.fits = r.fits, !.loop_fits = r.loop_fits,
                                   !.model_before = predictor.model,
                                   !.prev = PrevForecast(last, days)]
    /\ UNCHANGED <<builds, app>>

Next == CallPrepareData \/ CallTrain \/ CallPredictFuture

Spec == Init /\ [][Next]_vars

----------------------------------------------------------------------------
(* news_manager / fake_news_engine / sentiment_engine                      *)
(* An article is [headline, summary].  The two classifiers are pretrained  *)
(* networks: fixed functions of the text they are given, tabulated here    *)
(* for the texts of the model.  NullText is a headline that is no string   *)
(* (JSON null), on which the tokenizer raises.                             *)

NullText == "<null>"

\* softmax output of the fake-news model for a headline, in units of 1/10000
FakeNewsProbs(text) ==
    CASE text = "h_real" -> [fake |-> 1000, real |-> 9000]
      [] text = "h_fake95" -> [fake |-> 9500, real |-> 500]
      [] text = "h_fake60" -> [fake |-> 6000, real |-> 4000]
      [] text = "h_fake6001" -> [fake |-> 6001, real |-> 3999]
      [] OTHER -> [fake |-> 5000, real |-> 5000]

\* a faulty comparison, real_prob >= fake_prob, that calls a tie REAL
FakeNewsLabelTieReal(pr) ==
    IF pr.real >= pr.fake
    THEN [err |-> "none", label |-> "REAL", confidence |-> pr.real]
    ELSE [err |-> "none", label |-> "FAKE", confidence |-> pr.fake]

\* lines 39-42 of detect_fake_news: the label and confidence of a softmax output
FakeNewsLabel(pr) ==
    IF pr.real > pr.fake
    THEN [err |-> "none", label |-> "REAL", confidence |-> pr.real]
    ELSE [err |-> "none", label |-> "FAKE", confidence |-> pr.fake]

\* detect_fake_news(text): the label and its confidence, or the raised error
DetectFakeNews(text) ==
    IF text = NullText
    THEN [err |-> "ValueError", label |-> "", confidence |-> 0]
    ELSE FakeNewsLabel(FakeNewsProbs(text))

\* softmax output of FinBERT for the text "{headline}. {summary}", in hundredths
FinbertProbs(full_text) ==
    CASE full_text[2] = "s_up" -> [pos |-> 70, neg |-> 10, neu |-> 20]
      [] full_text[2] = "s_down" -> [pos |-> 10, neg |-> 50, neu |-> 40]
      [] full_text[2] = "s_up5" -> [pos |-> 35, neg |-> 30, neu |-> 35]
      [] full_text[2] = "s_down5" -> [pos |-> 30, neg |-> 35, neu |-> 35]
      [] OTHER -> [pos |-> 20, neg |-> 20, neu |-> 60]

\* a faulty batch scorer that returns the rows of the batch in reverse order
PredictFinbertSentimentReversed(text_list) ==
    [i \in 1..Len(text_list) |-> FinbertProbs(text_list[Len(text_list) + 1 - i])]

\* predict_finbert_sentiment(text_list)
PredictFinbertSentiment(text_list) ==
    [i \in 1..Len(text_list) |-> FinbertProbs(text_list[i])]

\* a faulty trust rule with an inclusive threshold (confidence >= 0.60)
IsTrustedInclusive(validity, confidence) ==
    ~(validity = "FAKE" /\ confidence >= TrustThreshold)

\* faulty labels with inclusive thresholds (score >= 0.05, score <= -0.05)
SentimentLabelInclusive(score) ==
    IF score >= LabelThreshold THEN "Positive"
    ELSE IF score <= -LabelThreshold THEN "Negative"
    ELSE "Neutral"

\* is_trusted of process_news_with_finbert
IsTrusted(validity, confidence) == ~(validity = "FAKE" /\ confidence > TrustThreshold)

SentimentLabel(score) ==
    IF score > LabelThreshold THEN "Positive"
    ELSE IF score < -LabelThreshold THEN "Negative"
    ELSE "Neutral"

\* the news_data rows of the first loop, up to the first classifier error
RECURSIVE NewsData(_)
NewsData(articles) ==
    IF articles = <<>> THEN [err |-> "none", rows |-> <<>>]
    ELSE LET article == Head(articles)
             d == DetectFakeNews(article.headline)
         IN  IF d.err # "none" THEN [err |-> d.err, rows |-> <<>>]
             ELSE LET rest == NewsData(Tail(articles))
                      row == [title |-> article.headline,
                              summary |-> article.summary,
                              full_text |-> <<article.headline, article.summary>>,
                              is_trusted |-> IsTrusted(d.label, d.confidence),
                              fake_confidence |-> d.confidence]
                  IN  IF rest.err # "none" THEN rest
                      ELSE [err |-> "none", rows |-> <<row>> \o rest.rows]

\* a DataFrame of news rows, or None; pd.DataFrame() is EmptyNews
EmptyNews == [none |-> FALSE, rows |-> <<>>]

NoNews == [none |-> TRUE, rows |-> <<>>]

\* process_news_with_finbert(articles): the frame returned, or the error raised
ProcessNewsWithFinbert(articles) ==
    IF articles = <<>> THEN [err |-> "none", df |-> EmptyNews]
    ELSE LET nd == NewsData(articles) IN
         IF nd.err # "none" THEN [err |-> nd.err, df |-> EmptyNews]
         ELSE LET probs == PredictFinbertSentiment(
                               [i \in 1..Len(nd.rows) |-> nd.rows[i].full_text])
                  score(i) == probs[i].pos - probs[i].neg
              IN  [err |-> "none",
                   df |-> [none |-> FALSE, rows |-> [i \in 1..Len(nd.rows) |->
                             [title |-> nd.rows[i].title,
                              summary |-> nd.rows[i].summary,
                              is_trusted |-> nd.rows[i].is_trusted,
                              fake_confidence |-> nd.rows[i].fake_confidence,
                              sentiment_score |-> score(i),
                              label |-> SentimentLabel(score(i))]]]]

\* a faulty slice, s[:n + 1]
TakeOneMore(s, n) == IF Len(s) <= n + 1 THEN s ELSE SubSeq(s, 1, n + 1)

\* s[:n]
Take(s, n) == IF Len(s) <= n THEN s ELSE SubSeq(s, 1, n)

\* fetch_google_news: secondary is [kind, titles], the RSS request's outcome;
\* the first 10 items become articles whose summary is the title, and any
\* error of the request or of the parse yields []
FetchGoogleNews(secondary) ==
    IF secondary.kind = "raise" THEN <<>>
    ELSE LET items == Take(secondary.titles, NewsLimit) IN
         [i \in 1..Len(items) |-> [headline |-> items[i], summary |-> items[i]]]

\* fetch_finnhub_news: primary is [kind, items], kind "raise" (request or json
\* error), "notlist" (an error dictionary) or "list"
FinnhubArticles(primary) == IF primary.kind = "list" THEN primary.items ELSE <<>>

\* a faulty fallback test that looks at errors only, not at an empty list
UsesFallbackOnErrorOnly(primary) == primary.kind # "list"

\* if not finnhub_articles: the Google News request is made
UsesFallback(primary) == FinnhubArticles(primary) = <<>>

FetchFinnhubNews(primary, secondary) ==
    IF UsesFallback(primary)
    THEN FetchGoogleNews(secondary)
    ELSE Take(FinnhubArticles(primary), NewsLimit)

----------------------------------------------------------------------------
(* feature_engine.add_technical_indicators, on a table sorted by Date with *)
(* no missing prices.  pandas_ta returns None for a series shorter than    *)
(* the indicator's window, else a column that is NaN until the window is   *)
(* filled; NaN is a cell here.                                             *)

NaN == -1

\* ta.rsi(close, length): None when the series is shorter than length, else
\* NaN in the first length rows
RsiIsNone(close) == Len(close) < RsiLength

RsiColumn(close) ==
    [i \in 1..Len(close) |->
        IF i <= RsiLength THEN NaN ELSE (close[i] + close[i - 1]) % (MaxVal + 1)]

\* ta.macd: None when shorter than slow; the MACD line is defined from row
\* slow, its signal from row slow + signal - 1
MacdIsNone(close) == Len(close) < MacdSlow

\* a faulty MACD whose signal line is defined as soon as the MACD line is
MacdColumnsNoSignalWarmup(close) ==
    [i \in 1..Len(close) |->
        [macd |-> IF i < MacdSlow THEN NaN ELSE close[i],
         signal |-> IF i < MacdSlow THEN NaN ELSE close[i - 1]]]

\* without TA-Lib, ta.macd takes the signal line from ema(macd, signal), which
\* is None when the MACD line has fewer than signal defined values, and
\* macd - None raises TypeError; with TA-Lib the columns are all NaN instead
MacdRaises(close, talib) ==
    /\ ~talib
    /\ ~MacdIsNone(close)
    /\ Len(close) - MacdSlow + 1 < MacdSignal

MacdColumns(close) ==
    [i \in 1..Len(close) |->
        [macd |-> IF i < MacdSlow THEN NaN ELSE close[i],
         signal |-> IF i < MacdSlow + MacdSignal - 1 THEN NaN ELSE close[i - 1]]]

\* ta.bbands(close, length): None when shorter than length, defined from row length
BBandsIsNone(close) == Len(close) < BBLength

BBandsColumn(close) ==
    [i \in 1..Len(close) |-> IF i < BBLength THEN NaN ELSE close[i]]

\* df['Close']
ClosePrices(df) == [i \in 1..Len(df.rows) |-> df.rows[i][IndexOf(df.cols, "Close")]]

HasNaN(row) == \E j \in 1..Len(row) : row[j] = NaN

\* a faulty filter that looks for missing values in the price columns only
NoNaNInPrices(row) == \A j \in 1..3 : row[j] # NaN

NoNaN(row) == ~HasNaN(row)

\* add_technical_indicators(df) for df with columns Date, Close, Volume
AddTechnicalIndicators(df) ==
    LET T == Len(df.rows)
        close == [i \in 1..T |-> df.rows[i][IndexOf(df.cols, "Close")]]
        \* df['RSI'] = None makes a column of missing values
        withRsi == [i \in 1..T |->
                      Append(df.rows[i],
                             IF RsiIsNone(close) THEN NaN ELSE RsiColumn(close)[i])]
        \* pd.concat drops a None frame silently
        withMacd == [i \in 1..T |->
                       IF MacdIsNone(close) THEN withRsi[i]
                       ELSE withRsi[i] \o <<MacdColumns(close)[i].macd,
                                            MacdColumns(close)[i].signal>>]
        withBB == [i \in 1..T |->
                     IF BBandsIsNone(close) THEN withMacd[i]
                     ELSE Append(withMacd[i], BBandsColumn(close)[i])]
        cols == df.cols \o <<"RSI">>
                \o (IF MacdIsNone(close) THEN <<>> ELSE <<"MACD", "MACDs">>)
                \o (IF BBandsIsNone(close) THEN <<>> ELSE <<"MidBand">>)
    IN  [cols |-> cols, rows |-> SelectSeq(withBB, NoNaN)]

----------------------------------------------------------------------------
(* main.py, step E: merge sentiment into the main frame *)

\* every mean of up to NewsLimit scores is a multiple of 1/MeanGrid
MeanGrid == LcmUpTo(NewsLimit)

\* the mean of a non-empty sequence of scores, held * MeanGrid
Mean(scores) == SumSeq(scores) * (MeanGrid \div Len(scores))

\* sentiment_df['sentiment_score'].mean()
AvgSentiment(sentiment_df) ==
    Mean([i \in 1..Len(sentiment_df.rows) |-> sentiment_df.rows[i].sentiment_score])

\* a faulty merge that writes avg_sentiment into every row of the frame
MergeSentimentEveryRow(df, sentiment_df) ==
    LET hasNews == ~sentiment_df.none /\ sentiment_df.rows # <<>>
        value == IF hasNews THEN AvgSentiment(sentiment_df) ELSE 0
    IN  [cols |-> Append(df.cols, "Sentiment"),
         rows |-> [i \in 1..Len(df.rows) |-> Append(df.rows[i], value)]]

\* df['Sentiment'] = 0.0, then df.iloc[-5:, Sentiment] = avg_sentiment when
\* there is news; sentiment_df is [none |-> TRUE] or a news frame
MergeSentiment(df, sentiment_df) ==
    LET T == Len(df.rows)
        hasNews == ~sentiment_df.none /\ sentiment_df.rows # <<>>
        value(i) == IF hasNews /\ i > T - SentimentRows
                    THEN AvgSentiment(sentiment_df) ELSE 0
    IN  [cols |-> Append(df.cols, "Sentiment"),
         rows |-> [i \in 1..T |-> Append(df.rows[i], value(i))]]

----------------------------------------------------------------------------
(* main.py: one run of the script.  app.pc is the position in the script;  *)
(* an exception no handler catches stops the run (pc = "crashed").         *)

Tickers == {"", "AAA", "BBB", "NEW", "MID"}

Periods == {"1y", "2y"}

\* rows add_technical_indicators drops from a table long enough for all indicators
Warmup == SetMax({RsiLength, MacdSlow + MacdSignal - 2, BBLength - 1})

\* daily bars the price provider holds for a ticker and period: NEW was
\* listed days ago, MID weeks ago, AAA and BBB years ago
BarsLength(ticker, period) ==
    IF ticker = "NEW"
    THEN (IF period = "1y" THEN RsiLength - 1 ELSE Warmup + 1)
    ELSE IF ticker = "MID"
    THEN (IF period = "1y" THEN MacdSlow ELSE MacdSlow + MacdSignal - 2)
    ELSE (IF period = "1y" THEN Warmup + DefaultLookback
          ELSE Warmup + SetMax({DefaultLookback, SentimentRows}) + 2)

ClosePrice(ticker, i) ==
    IF ticker = "AAA" THEN i % (MaxVal + 1) ELSE ((i + 1) \div 2) % (MaxVal + 1)

\* the table fetch_stock_data returns when the provider has data
Bars(ticker, period) ==
    MkFrame(<<"Date", "Close", "Volume">>,
            [i \in 1..BarsLength(ticker, period) |-> ClosePrice(ticker, i)])

EmptyFrame == [cols |-> <<>>, rows |-> <<>>]

\* the articles a news provider can hold
ArticleKinds ==
    {[headline |-> "h_real", summary |-> "s_up"],
     [headline |-> "h_fake95", summary |-> "s_down"],
     [headline |-> "h_fake60", summary |-> "s_up5"],
     [headline |-> "h_fake6001", summary |-> "s_down5"],
     [headline |-> NullText, summary |-> "s_up"]}

Headlines == {a.headline : a \in ArticleKinds}

SeqsUpTo(S, n) == UNION {[1..k -> S] : k \in 0..n}

\* outcomes of the Finnhub request and of the Google News request
PrimaryResponses ==
    {[kind |-> "raise", items |-> <<>>], [kind |-> "notlist", items |-> <<>>]}
    \cup {[kind |-> "list", items |-> l] : l \in SeqsUpTo(ArticleKinds, NewsLimit + 1)}

SecondaryResponses ==
    {[kind |-> "raise", titles |-> <<>>]}
    \cup {[kind |-> "list", titles |-> l] : l \in SeqsUpTo(Headlines, NewsLimit + 1)}

\* the Google News request is made only when Finnhub gave no article
SecondaryFor(primary) ==
    IF UsesFallback(primary)
    THEN SecondaryResponses
    ELSE {[kind |-> "unused", titles |-> <<>>]}

NoSession == [has |-> FALSE, forecast |-> <<>>, future_dates |-> <<>>,
              ticker |-> "", period |-> ""]

NoTrain == [clicked |-> FALSE, err |-> "none", trained |-> FALSE, iters |-> 0,
            returned |-> 0, w |-> 0]

\* what the news step did: the outcome of each request, whether Google News
\* was consulted, and whether fetch and scoring returned without raising
NoNewsCall == [made |-> FALSE, primary |-> "none", primary_empty |-> TRUE,
               fallback |-> FALSE, secondary |-> "none", secondary_empty |-> TRUE,
               returned |-> FALSE]

NewsCall(primary, secondary, returned) ==
    [made |-> TRUE, primary |-> primary.kind, primary_empty |-> primary.items = <<>>,
     fallback |-> UsesFallback(primary), secondary |-> secondary.kind,
     secondary_empty |-> secondary.titles = <<>>, returned |-> returned]

NoSummary == [computed |-> FALSE, overall |-> 0, positive |-> 0, negative |-> 0,
              neutral |-> 0, verified |-> 0]

\* the state of a run about to start, for the widget values given
StartOfRun(ticker, period, train_btn, forecast_days, has_key, session) ==
    [pc |-> "start", ticker |-> ticker, period |-> period, train_btn |-> train_btn,
     forecast_days |-> forecast_days, has_key |-> has_key,
     df_none |-> TRUE, df |-> EmptyFrame, raw_news |-> <<>>, sentiment_df |-> NoNews,
     attempted |-> {}, ui |-> {}, exception |-> "none", summary |-> NoSummary,
     train |-> NoTrain, session |-> session, news_call |-> NoNewsCall,
     run |-> 1, session_before |-> session]

Crash(a, e) == [a EXCEPT !.pc = "crashed", !.exception = e]

\* lines 89-96: if ticker: df = fetch_stock_data(ticker, period)
StepFetchStock ==
    /\ app.pc = "start"
    /\ IF app.ticker = ""
       THEN app' = [app EXCEPT !.pc = "done", !.ui = @ \cup {"landing"}]
       ELSE \E found \in BOOLEAN :
              app' = [app EXCEPT !.pc = "news",
                                 !.df_none = ~found,
                                 !.df = IF found THEN Bars(app.ticker, app.period)
                                        ELSE EmptyFrame]
    /\ UNCHANGED <<predictor, builds, last>>

\* lines 98-105: fetch the news and score it, when the API key is configured
StepNews ==
    /\ app.pc = "news"
    /\ IF app.has_key
       THEN \E primary \in PrimaryResponses :
            \E secondary \in SecondaryFor(primary) :
              LET raw_news == FetchFinnhubNews(primary, secondary)
                  r == ProcessNewsWithFinbert(raw_news)
              IN  app' = IF r.err # "none"
                         THEN Crash([app EXCEPT !.raw_news = raw_news,
                                                !.news_call =
                                                    NewsCall(primary, secondary, FALSE)],
                                    r.err)
                         ELSE [app EXCEPT !.pc = "indicators", !.raw_news = raw_news,
                                          !.sentiment_df = r.df,
                                          !.news_call =
                                              NewsCall(primary, secondary, TRUE)]
       ELSE app' = [app EXCEPT !.pc = "indicators", !.ui = @ \cup {"error_no_key"},
                               !.sentiment_df = NoNews]
    /\ UNCHANGED <<predictor, builds, last>>

\* lines 107-109: if df is not None: df = add_technical_indicators(df)
StepIndicators ==
    /\ app.pc = "indicators"
    /\ \E talib \in BOOLEAN :
         app' = IF app.df_none THEN [app EXCEPT !.pc = "merge"]
                ELSE IF MacdRaises(ClosePrices(app.df), talib)
                THEN Crash([app EXCEPT !.attempted = @ \cup {"indicators"}], "TypeError")
                ELSE [app EXCEPT !.pc = "merge", !.df = AddTechnicalIndicators(app.df),
                                 !.attempted = @ \cup {"indicators"}]
    /\ UNCHANGED <<predictor, builds, last>>

\* lines 111-115: df['Sentiment'] = 0.0 and the broadcast of avg_sentiment
StepMerge ==
    /\ app.pc = "merge"
    /\ app' = IF app.df_none
              THEN \* None does not support item assignment
                   Crash([app EXCEPT !.attempted = @ \cup {"merge"}], "TypeError")
              ELSE [app EXCEPT !.pc = "dashboard",
                               !.df = MergeSentiment(app.df, app.sentiment_df),
                               !.attempted = @ \cup {"merge"}]
    /\ UNCHANGED <<predictor, builds, last>>

\* lines 118-160 and 542-543: the header and tab 1, or the no-data error
StepDashboard ==
    /\ app.pc = "dashboard"
    /\ app' = IF ~app.df_none /\ app.df.rows # <<>>
              THEN IF Len(app.df.rows) < 2
                   THEN Crash(app, "IndexError")     \* df['Close'].iloc[-2]
                   ELSE [app EXCEPT !.pc = "tab2", !.ui = @ \cup {"header", "tab1"}]
              ELSE [app EXCEPT !.pc = "done", !.ui = @ \cup {"error_no_data"}]
    /\ UNCHANGED <<predictor, builds, last>>

Trusted(row) == row.is_trusted

CountLabel(rows, label) == Cardinality({i \in 1..Len(rows) : rows[i].label = label})

\* lines 232-418: the news tab
StepTab2 ==
    /\ app.pc = "tab2"
    /\ app' =
         IF ~app.sentiment_df.none /\ app.sentiment_df.rows # <<>>
         THEN LET clean_df == SelectSeq(app.sentiment_df.rows, Trusted)
                  overall_sentiment ==
                      IF Len(clean_df) > 0
                      THEN Mean([i \in 1..Len(clean_df) |-> clean_df[i].sentiment_score])
                      ELSE 0
              IN  IF Len(clean_df) = 0
                  THEN \* positive_count / len(clean_df)
                       Crash(app, "ZeroDivisionError")
                  ELSE [app EXCEPT
                          !.pc = "tab3",
                          !.ui = @ \cup {"news_overview"},
                          !.summary =
                             [computed |-> TRUE, overall |-> overall_sentiment,
                              positive |-> CountLabel(clean_df, "Positive"),
                              negative |-> CountLabel(clean_df, "Negative"),
                              neutral |-> CountLabel(clean_df, "Neutral"),
                              verified |-> Len(clean_df)]]
         ELSE [app EXCEPT !.pc = "tab3", !.ui = @ \cup {"no_news_info"}]
    /\ UNCHANGED <<predictor, builds, last>>

\* a faulty date list, range(0, forecast_days), that starts on the last known date
FutureDatesFromLastDate(last_date, forecast_days) ==
    [i \in 1..forecast_days |-> last_date + (i - 1)]

\* line 439: [last_date + pd.Timedelta(days=i) for i in range(1, forecast_days + 1)];
\* a date is a day number
FutureDates(last_date, forecast_days) == [i \in 1..forecast_days |-> last_date + i]

\* a faulty handler that forgets the stored forecast when training fails
TrainAndPredictClearing(a, w) ==
    LET p == NewPredictor(a.df, DefaultLookback)
        t == Train(p, 1, w)
        f == PredictFuture(t.p, a.forecast_days)
        last_date == a.df.rows[Len(a.df.rows)][IndexOf(a.df.cols, "Date")]
        future_dates == FutureDates(last_date, a.forecast_days)
    IN  IF t.err # "none" \/ f.err # "none"
        THEN [a EXCEPT !.ui = @ \cup {"error_ai_engine"},
                       !.train = [clicked |-> TRUE,
                                  err |-> IF t.err # "none" THEN t.err ELSE f.err,
                                  trained |-> t.err = "none",
                                  iters |-> 0, returned |-> 0, w |-> w],
                       !.session = NoSession]
        ELSE [a EXCEPT !.ui = @ \cup {"success"},
                       !.attempted = @ \cup {"forecast"},
                       !.train = [clicked |-> TRUE, err |-> "none", trained |-> TRUE,
                                  iters |-> f.iters,
                                  returned |-> Len(f.future_predictions), w |-> w],
                       !.session = [has |-> TRUE, forecast |-> f.future_predictions,
                                    future_dates |-> future_dates,
                                    ticker |-> a.ticker, period |-> a.period]]

\* lines 431-446: the handler of the train button, for fit outcome w; every
\* exception is caught and reported
TrainAndPredict(a, w) ==
    LET p == NewPredictor(a.df, DefaultLookback)
        t == Train(p, 1, w)
        f == PredictFuture(t.p, a.forecast_days)
        last_date == a.df.rows[Len(a.df.rows)][IndexOf(a.df.cols, "Date")]
        future_dates == FutureDates(last_date, a.forecast_days)
    IN  IF t.err # "none"
        THEN [a EXCEPT !.ui = @ \cup {"error_ai_engine"},
                       !.train = [clicked |-> TRUE, err |-> t.err, trained |-> FALSE,
                                  iters |-> 0, returned |-> 0, w |-> w]]
        ELSE IF f.err # "none"
        THEN [a EXCEPT !.ui = @ \cup {"error_ai_engine"},
                       !.train = [clicked |-> TRUE, err |-> f.err, trained |-> TRUE,
                                  iters |-> f.iters, returned |-> 0, w |-> w]]
        ELSE [a EXCEPT !.ui = @ \cup {"success"},
                       !.attempted = @ \cup {"forecast"},
                       !.train = [clicked |-> TRUE, err |-> "none", trained |-> TRUE,
                                  iters |-> f.iters,
                                  returned |-> Len(f.future_predictions), w |-> w],
                       !.session = [has |-> TRUE, forecast |-> f.future_predictions,
                                    future_dates |-> future_dates,
                                    ticker |-> a.ticker, period |-> a.period]]

\* lines 448-536: show the stored forecast, when there is one
ShowForecast(a) ==
    IF a.session.has
    THEN [a EXCEPT !.pc = "done", !.ui = @ \cup {"forecast_shown"}]
    ELSE [a EXCEPT !.pc = "done", !.ui = @ \cup {"train_hint"}]

\* lines 420-536: the forecast tab
StepTab3 ==
    /\ app.pc = "tab3"
    /\ IF app.train_btn
       THEN \E w \in Weights : app' = ShowForecast(TrainAndPredict(app, w))
       ELSE app' = ShowForecast(app)
    /\ UNCHANGED <<predictor, builds, last>>

Horizons == MinHorizon..MaxHorizon

AppInit ==
    /\ \E ticker \in Tickers, period \in Periods, train_btn \in BOOLEAN,
          forecast_days \in Horizons, has_key \in BOOLEAN :
         app = StartOfRun(ticker, period, train_btn, forecast_days, has_key, NoSession)
    /\ predictor = NewPredictor(EmptyFrame, DefaultLookback)
    /\ builds = 0
    /\ last = NoCall

AppNext ==
    \/ StepFetchStock
    \/ StepNews
    \/ StepIndicators
    \/ StepMerge
    \/ StepDashboard
    \/ StepTab2
    \/ StepTab3

AppSpec == AppInit /\ [][AppNext]_vars

----------------------------------------------------------------------------
(* A browser session: the script runs again on every interaction, with new *)
(* widget values and the st.session_state the runs before left.  The news  *)
(* step neither reads nor writes st.session_state; the sessions explored   *)
(* are those of a deployment without FINNHUB_API_KEY, which secrets fix    *)
(* for all runs.                                                           *)

\* the start of the next run: widgets as the user left them, session kept
StartOfRerun(a, ticker, period, train_btn, forecast_days) ==
    [StartOfRun(ticker, period, train_btn, forecast_days, a.has_key, a.session)
        EXCEPT !.run = a.run + 1]

\* an interaction after a run has ended, by reaching its end or by an
\* uncaught exception
Rerun ==
    /\ app.pc \in {"done", "crashed"}
    /\ app.run < MaxRuns
    /\ \E ticker \in Tickers, period \in Periods, train_btn \in BOOLEAN,
          forecast_days \in Horizons :
         app' = StartOfRerun(app, ticker, period, train_btn, forecast_days)
    /\ UNCHANGED <<predictor, builds, last>>

SessionInit ==
    /\ \E ticker \in Tickers, period \in Periods, train_btn \in BOOLEAN,
          forecast_days \in Horizons :
         app = StartOfRun(ticker, period, train_btn, forecast_days, FALSE, NoSession)
    /\ predictor = NewPredictor(EmptyFrame, DefaultLookback)
    /\ builds = 0
    /\ last = NoCall

SessionNext == AppNext \/ Rerun

SessionSpec == SessionInit /\ [][SessionNext]_vars

----------------------------------------------------------------------------
(* detect_fake_news and fetch_finnhub_news called on their own, on every   *)
(* softmax output of the two-class model and on every outcome of the two   *)
(* news requests.  last holds the call and what it returned.               *)

\* softmax over two classes: the two probabilities sum to one
SoftmaxOutputs == {[fake |-> f, real |-> ProbSteps - f] : f \in 0..ProbSteps}

CallDetectFakeNews ==
    /\ \E pr \in SoftmaxOutputs :
         last' = [op |-> "detect_fake_news", probs |-> pr,
                  result |-> FakeNewsLabel(pr)]
    /\ UNCHANGED <<predictor, builds, app>>

CallFetchFinnhubNews ==
    /\ \E primary \in PrimaryResponses :
       \E secondary \in SecondaryFor(primary) :
         last' = [op |-> "fetch_finnhub_news", primary |-> primary,
                  secondary |-> secondary,
                  result |-> FetchFinnhubNews(primary, secondary)]
    /\ UNCHANGED <<predictor, builds, app>>

UnitInit ==
    /\ last = [op |-> "none"]
    /\ predictor = NewPredictor(EmptyFrame, DefaultLookback)
    /\ builds = 0
    /\ app = StartOfRun("", "1y", FALSE, MinHorizon, FALSE, NoSession)

UnitNext == CallDetectFakeNews \/ CallFetchFinnhubNews

UnitSpec == UnitInit /\ [][UnitNext]_vars

----------------------------------------------------------------------------
(* Claims about StockPredictor, checked under Spec *)

Rows == Len(predictor.raw_df.rows)

Features == Len(predictor.raw_df.cols)

\* C1: for a frame of T rows and lookback L with T <= L, prepare_data fails
\* with InsufficientDataError instead of returning a result (stated for the
\* frames of at least one row, which the scalers accept).
C1_PrepareDataRejectsShortFrame ==
    (last.op = "prepare_data" /\ Rows >= 1 /\ Rows <= predictor.lookback)
        => last.err = "InsufficientDataError"

\* C2: when windowing yields zero examples, train fails with
\* InsufficientDataError before a model is built or fitted, and the
\* predictor's model stays as it was before the call (stated for the frames
\* of at least one row).
C2_TrainRejectsZeroExamples ==
    (last.op = "train" /\ Rows >= 1 /\ Rows <= predictor.lookback)
        => (last.err = "InsufficientDataError" /\ predictor.model = last.model_before)

\* C3: predict_future on a predictor on which no train call has succeeded
\* fails with ModelNotTrainedError and returns no forecast (stated for the
\* frames a trained predictor could forecast: a 'Close' column and at least
\* lookback rows).
C3_PredictRequiresTrainedModel ==
    (last.op = "predict_future" /\ ~last.model_before.trained
     /\ Rows >= predictor.lookback /\ "Close" \in Range(predictor.raw_df.cols))
        => (last.err = "ModelNotTrainedError" /\ last.future_predictions = <<>>)

\* C9: for a frame of T rows, F numeric columns and lookback L with T > L,
\* prepare_data emits exactly T - L (window, label) examples and every window
\* has shape L x F.
C9_WindowCountAndShape ==
    (last.op = "prepare_data" /\ Rows > predictor.lookback)
        => /\ last.err = "none"
           /\ Len(last.X) = Rows - predictor.lookback
           /\ Len(last.y) = Rows - predictor.lookback
           /\ \A k \in 1..Len(last.X) :
                /\ Len(last.X[k]) = predictor.lookback
                /\ \A r \in 1..Len(last.X[k]) : Len(last.X[k][r]) = Features

\* a prepare_data call that emitted two windows of two features each
C9_Witness ==
    /\ last.op = "prepare_data"
    /\ Rows > predictor.lookback
    /\ Len(last.X) >= 2
    /\ Features = 2

\* C10: between a train call and the completion of a later predict_future
\* call each scaler is fitted exactly once, in the train call; predict_future
\* performs no scaler fit, before or during the rollout.
C10_ScalersFittedOnlyInTrain ==
    /\ (last.op = "train" /\ last.err = "none") => last.fits = 1
    /\ (last.op = "predict_future" /\ last.model_before.trained)
          => (last.fits = 0 /\ last.loop_fits = 0)

----------------------------------------------------------------------------
(* Claims about the script, checked under AppSpec *)

\* the merge of step E has run on a table
Merged == "merge" \in app.attempted /\ ~app.df_none

SentimentCell(i) == app.df.rows[i][IndexOf(app.df.cols, "Sentiment")]

TrustedRows == SelectSeq(app.sentiment_df.rows, Trusted)

\* the mean sentiment_score over trusted articles, 0 when there are none
TrustedMean ==
    IF TrustedRows = <<>> THEN 0
    ELSE Mean([i \in 1..Len(TrustedRows) |-> TrustedRows[i].sentiment_score])

\* C4: the value written into the Sentiment column is the mean
\* sentiment_score over trusted articles only; an article classified FAKE
\* with confidence 0.95 is flagged is_trusted = FALSE and contributes nothing.
C4_SentimentIsTrustedMean ==
    (Merged /\ app.sentiment_df.rows # <<>>)
        => /\ \A i \in 1..Len(app.sentiment_df.rows) :
                app.sentiment_df.rows[i].title = "h_fake95"
                    => ~app.sentiment_df.rows[i].is_trusted
           /\ \A i \in 1..Len(app.df.rows) :
                i > Len(app.df.rows) - SentimentRows => SentimentCell(i) = TrustedMean

\* C5: when the processed article set holds no trusted article (it is empty,
\* or every article is untrusted) the Sentiment column is 0.0 in every row.
C5_NoTrustedNewsIsNeutral ==
    (Merged /\ TrustedRows = <<>>)
        => \A i \in 1..Len(app.df.rows) : SentimentCell(i) = 0

\* C6: when fetch_stock_data returns None the run shows the data-unavailable
\* error and attempts no indicator, sentiment-merge or forecast step on the
\* missing table (stated for the runs whose news step did not raise).
C6_NoDataHaltsPipeline ==
    (app.pc \in {"done", "crashed"} /\ app.ticker # "" /\ app.df_none
     /\ app.exception # "ValueError")
        => /\ "error_no_data" \in app.ui
           /\ app.exception = "none"
           /\ app.attempted = {}

HasNullHeadline(articles) == \E i \in 1..Len(articles) : articles[i].headline = NullText

\* C7: when a classifier invocation fails for one article of a batch,
\* process_news_with_finbert still returns a row per article, the affected
\* one defaulted to is_trusted = TRUE and neutral sentiment, and the run goes on.
C7_ClassifierFailureIsLocal ==
    (app.pc \notin {"start", "news"} /\ app.has_key /\ HasNullHeadline(app.raw_news))
        => /\ app.exception # "ValueError"
           /\ Len(app.sentiment_df.rows) = Len(app.raw_news)
           /\ \A i \in 1..Len(app.sentiment_df.rows) :
                app.raw_news[i].headline = NullText
                    => /\ app.sentiment_df.rows[i].is_trusted
                       /\ app.sentiment_df.rows[i].label = "Neutral"

\* C8: for a trained predictor and every N the slider allows,
\* predict_future(days=N) performs exactly N rollout iterations and returns
\* exactly N values.
C8_RolloutLength ==
    (app.train.clicked /\ app.train.trained)
        => /\ app.train.err = "none"
           /\ app.forecast_days \in MinHorizon..MaxHorizon
           /\ app.train.iters = app.forecast_days
           /\ app.train.returned = app.forecast_days
           /\ Len(app.session.forecast) = app.forecast_days

\* a run that trained and forecast the longest horizon
C8_Witness ==
    /\ app.pc = "done"
    /\ app.train.trained
    /\ app.forecast_days = MaxHorizon
    /\ Len(app.session.forecast) = MaxHorizon

----------------------------------------------------------------------------
(* Claims about the news rows, checked under AppSpec *)

NewsRows == app.sentiment_df.rows

\* C11: an article is untrusted if and only if its authenticity label is FAKE
\* and the confidence is strictly above 0.60: FAKE at exactly 0.60 is trusted,
\* FAKE at 0.6001 is untrusted, REAL is trusted at any confidence.
C11_TrustRule ==
    \A i \in 1..Len(NewsRows) :
        LET row == NewsRows[i]
            pr == FakeNewsProbs(row.title)
            fake == pr.fake >= pr.real
        IN  /\ row.fake_confidence = (IF fake THEN pr.fake ELSE pr.real)
            /\ ~row.is_trusted <=> (fake /\ row.fake_confidence > 6000)
            /\ (fake /\ row.fake_confidence = 6000) => row.is_trusted
            /\ (fake /\ row.fake_confidence = 6001) => ~row.is_trusted
            /\ ~fake => row.is_trusted

\* one batch holding a FAKE article at 0.60 and a FAKE article at 0.6001
C11_Witness ==
    /\ \E i \in 1..Len(NewsRows) :
         NewsRows[i].title = "h_fake60" /\ NewsRows[i].is_trusted
    /\ \E i \in 1..Len(NewsRows) :
         NewsRows[i].title = "h_fake6001" /\ ~NewsRows[i].is_trusted

\* C18: an article's sentiment score is its positive probability minus its
\* negative probability; the label is Positive iff score > 0.05, Negative iff
\* score < -0.05, Neutral otherwise (so 0.05 and -0.05 are Neutral).
C18_ScoreAndLabel ==
    \A i \in 1..Len(NewsRows) :
        LET row == NewsRows[i]
            pr == FinbertProbs(<<row.title, row.summary>>)
        IN  /\ row.sentiment_score = pr.pos - pr.neg
            /\ row.label = "Positive" <=> row.sentiment_score > 5
            /\ row.label = "Negative" <=> row.sentiment_score < -5
            /\ row.label = "Neutral" <=> (row.sentiment_score >= -5
                                          /\ row.sentiment_score <= 5)

\* one batch holding a score of exactly 0.05 and a score of exactly -0.05
C18_Witness ==
    /\ \E i \in 1..Len(NewsRows) :
         NewsRows[i].sentiment_score = 5 /\ NewsRows[i].label = "Neutral"
    /\ \E i \in 1..Len(NewsRows) :
         NewsRows[i].sentiment_score = -5 /\ NewsRows[i].label = "Neutral"

\* C12: fetch_finnhub_news consults Google News if and only if Finnhub raised,
\* returned a non-list or returned an empty list; when Google News also
\* yields nothing or raises, the article list is empty, no exception escapes
\* the news step, and the run goes on with an all-zero Sentiment column
\* (stated for the runs that have a price table to put the column in).
C12_FallbackThenNeutral ==
    app.news_call.made
        => /\ app.news_call.fallback
                <=> (app.news_call.primary \in {"raise", "notlist"}
                     \/ app.news_call.primary_empty)
           /\ (app.news_call.fallback
               /\ (app.news_call.secondary = "raise" \/ app.news_call.secondary_empty))
                  => /\ app.raw_news = <<>>
                     /\ app.news_call.returned
                     /\ app.sentiment_df = EmptyNews
                     /\ app.exception # "ValueError"
                     /\ Merged => \A i \in 1..Len(app.df.rows) : SentimentCell(i) = 0

\* a finished run in which Finnhub answered with an error dictionary and the
\* Google News request raised, and a table of several rows was merged
C12_Witness ==
    /\ app.pc = "done"
    /\ app.news_call.primary = "notlist"
    /\ app.news_call.fallback
    /\ app.news_call.secondary = "raise"
    /\ Merged
    /\ Len(app.df.rows) > SentimentRows
    /\ \A i \in 1..Len(app.df.rows) : SentimentCell(i) = 0

\* the aggregate the merge broadcasts: avg_sentiment of main.py line 114 when
\* there are scored articles, else the neutral 0.0
Aggregate ==
    IF ~app.sentiment_df.none /\ NewsRows # <<>>
    THEN Mean([i \in 1..Len(NewsRows) |-> NewsRows[i].sentiment_score])
    ELSE 0

\* C14: in the feature frame of T rows the Sentiment column holds the single
\* aggregate scalar in the last min(5, T) rows and exactly 0.0 in every
\* earlier row.
C14_SentimentInLastRows ==
    Merged
        => LET T == Len(app.df.rows)
               K == IF T < 5 THEN T ELSE 5
           IN  \A i \in 1..T :
                   /\ i <= T - K => SentimentCell(i) = 0
                   /\ i > T - K => SentimentCell(i) = Aggregate

\* a merged frame of more than 5 rows with a non-zero aggregate
C14_Witness ==
    /\ Merged
    /\ Len(app.df.rows) > 5
    /\ Aggregate # 0
    /\ SentimentCell(Len(app.df.rows) - 5) = 0
    /\ SentimentCell(Len(app.df.rows) - 4) = Aggregate

----------------------------------------------------------------------------
(* Claims about add_technical_indicators, checked under AppSpec *)

\* the table handed to add_technical_indicators in this run
InputTable == Bars(app.ticker, app.period)

\* add_technical_indicators has returned a table in this run
IndicatorsReturned == ~app.df_none /\ "RSI" \in Range(app.df.cols)

C16_NoUndefinedIndicators ==
    IndicatorsReturned
        => /\ \A i \in 1..Len(app.df.rows) : \A j \in 1..Len(app.df.rows[i]) :
                  app.df.rows[i][j] # NaN
           /\ Len(app.df.rows) <= Len(InputTable.rows)
           /\ \A i \in 1..Len(app.df.rows) :
                  LET k == Len(InputTable.rows) - Len(app.df.rows) + i IN
                  \A j \in 1..Len(InputTable.cols) :
                      app.df.rows[i][j] = InputTable.rows[k][j]

\* a returned table that lost its warm-up rows and kept the rest
C16_Witness ==
    /\ IndicatorsReturned
    /\ Len(app.df.rows) >= 2
    /\ Len(app.df.rows) < Len(InputTable.rows)
    /\ {"RSI", "MACD", "MACDs", "MidBand"} \subseteq Range(app.df.cols)

----------------------------------------------------------------------------
(* Claims about the forecast of a run, checked under AppSpec *)

\* this run trained a model and stored its forecast
ForecastStored == app.train.clicked /\ app.train.err = "none" /\ app.session.has

LastKnownDate == app.df.rows[Len(app.df.rows)][IndexOf(app.df.cols, "Date")]

\* the price predicted from the last lookback rows of the known data
FirstDayPrediction ==
    LET pd == PrepareData(NewPredictor(app.df, DefaultLookback))
        seed == SubSeq(pd.scaled_data, Len(pd.scaled_data) - DefaultLookback + 1,
                       Len(pd.scaled_data))
    IN  InverseValue(pd.target_scaler, 1, ModelPredict([w |-> app.train.w], seed))

\* C17: the forecast is in chronological order, index 0 being the first day
\* after the last known date: the k-th value (from 0) is paired with the date
\* last_known_date + (k + 1) days, and the first value is the prediction made
\* from the last lookback known rows.
C17_ForecastDates ==
    ForecastStored
        => /\ Len(app.session.forecast) = app.forecast_days
           /\ Len(app.session.future_dates) = app.forecast_days
           /\ \A k \in 0..(app.forecast_days - 1) :
                  app.session.future_dates[k + 1] = LastKnownDate + (k + 1)
           /\ app.session.forecast[1] = FirstDayPrediction

\* a stored forecast whose values are not all equal
C17_Witness ==
    /\ ForecastStored
    /\ app.pc = "done"
    /\ app.session.future_dates[1] = LastKnownDate + 1
    /\ \E k \in 2..Len(app.session.forecast) :
          app.session.forecast[k] # app.session.forecast[1]

----------------------------------------------------------------------------
(* More claims about StockPredictor, checked under Spec *)

C19_TrainReplacesModel ==
    /\ (last.op = "train" /\ last.err = "none")
          => /\ predictor.model.trained
             /\ predictor.model.gen = builds
             /\ predictor.model.input_shape = <<predictor.lookback, Features>>
             /\ last.model_before.trained
                   => predictor.model.gen = last.model_before.gen + 1
    /\ last.op \in {"prepare_data", "predict_future"}
          => predictor.model = last.model_before

\* a train call that replaced an earlier trained model
C19_Witness ==
    /\ last.op = "train"
    /\ last.err = "none"
    /\ last.model_before.trained
    /\ predictor.model.gen = 2

\* the scaled value of cell x of column c, recomputed from the raw column:
\* (x - min) / (max - min), or x - min when the column is constant
ScaledCell(c, x) ==
    LET col == {predictor.raw_df.rows[i][c] : i \in 1..Rows}
        lo == SetMin(col)
        hi == SetMax(col)
    IN  IF hi = lo THEN (x - lo) * Grid ELSE ((x - lo) * Grid) \div (hi - lo)

\* the target column: 'Close', or the first column when there is none
TargetColumn ==
    IF "Close" \in Range(predictor.raw_df.cols)
    THEN IndexOf(predictor.raw_df.cols, "Close") ELSE 1

\* C20: for every index i in [L, T) the example number i - L has as window
\* exactly the scaled rows [i - L, i) over all F columns, in row order, and
\* as label the scaled target-column value of row i (indices from 0).
C20_WindowContents ==
    (last.op = "prepare_data" /\ last.err = "none")
        => \A i \in predictor.lookback..(Rows - 1) :
              LET e == i - predictor.lookback + 1 IN
              /\ e <= Len(last.X)
              /\ Len(last.X[e]) = predictor.lookback
              /\ \A r \in 1..predictor.lookback : \A c \in 1..Features :
                     last.X[e][r][c] =
                        ScaledCell(c, predictor.raw_df.rows[i - predictor.lookback + r][c])
              /\ last.y[e] = ScaledCell(TargetColumn,
                                        predictor.raw_df.rows[i + 1][TargetColumn])

\* a call that emitted two windows over two columns, with different cells
\* and different labels
C20_Witness ==
    /\ last.op = "prepare_data"
    /\ Features = 2
    /\ Len(last.X) >= 2
    /\ last.X[1] # last.X[2]
    /\ last.y[1] # last.y[2]

----------------------------------------------------------------------------
(* Claims about the rollout, checked under Spec *)

\* a predict_future call that returned
Forecast == last.op = "predict_future" /\ last.err = "none"

ClosePosition == IndexOf(predictor.raw_df.cols, "Close")

\* C21: at each rollout step the next window is the current one with its
\* oldest row dropped and one row appended, equal to the previous last row in
\* every column but the target, which holds the new scaled (not
\* inverse-transformed) prediction; so every non-target column of every
\* appended row keeps its last observed value.
C21_WindowSlides ==
    Forecast
        => \A k \in 1..last.iters :
              LET before == last.windows[k]
                  after == last.windows[k + 1]
                  L == predictor.lookback
              IN  /\ Len(after) = L
                  /\ \A r \in 1..(L - 1) : after[r] = before[r + 1]
                  /\ \A c \in 1..Features :
                        after[L][c] =
                            IF c = ClosePosition
                            THEN last.scaled_preds[k]
                            ELSE ScaledCell(c, predictor.raw_df.rows[Rows][c])
                  /\ last.future_predictions[k] =
                        last.scaled_preds[k] * HandleZeros(predictor.target_scaler.data_range[1])
                          + predictor.target_scaler.data_min[1] * Grid

\* a forecast of MaxDays steps over two-row windows in which a scaled
\* prediction differs from the price returned for it
C21_Witness ==
    /\ Forecast
    /\ last.iters = MaxDays
    /\ predictor.lookback = 2
    /\ Features = 2
    /\ \E k \in 1..last.iters : last.scaled_preds[k] # last.future_predictions[k]

\* C22: the rollout's first window is exactly the last L rows of the scaled
\* feature matrix, and the window has shape L x F at every one of the N steps.
C22_SeedAndShape ==
    Forecast
        => /\ Len(last.windows) = last.days + 1
           /\ \A r \in 1..predictor.lookback : \A c \in 1..Features :
                  last.windows[1][r][c] =
                      ScaledCell(c, predictor.raw_df.rows[Rows - predictor.lookback + r][c])
           /\ \A k \in 1..Len(last.windows) :
                  /\ Len(last.windows[k]) = predictor.lookback
                  /\ \A r \in 1..predictor.lookback :
                        Len(last.windows[k][r]) = Features

\* a forecast of MaxDays steps seeded from a frame longer than the window
C22_Witness ==
    /\ Forecast
    /\ last.days = MaxDays
    /\ Rows > predictor.lookback
    /\ Len(last.windows) = MaxDays + 1
    /\ Features = 2

\* C27: train and predict_future use the same target column for any numeric
\* frame: 'Close' when the frame has one, and when it has none the fallback
\* column 0 that windowing uses for labels and for the target scaler, so a
\* predictor trained on a frame without 'Close' forecasts on that column.
C27_SameTargetColumn ==
    (last.op = "predict_future" /\ last.model_before.trained)
        => /\ last.err = "none"
           /\ \A k \in 1..last.iters :
                 last.windows[k + 1][predictor.lookback][TargetColumn]
                    = last.scaled_preds[k]

\* C28: after windowing on a frame with a 'Close' column, the target scaler's
\* fitted minimum and maximum equal those of the all-feature scaler for the
\* Close column, so a scaled prediction is inverse-transformed on the scale
\* it is written back on.
C28_TargetScalerMatches ==
    (last.op \in {"prepare_data", "train", "predict_future"}
     /\ "Close" \in Range(predictor.raw_df.cols) /\ Rows >= 1)
        => LET ci == ClosePosition
               col == {predictor.raw_df.rows[i][ci] : i \in 1..Rows}
           IN  /\ predictor.scaler.fitted /\ predictor.target_scaler.fitted
               /\ predictor.target_scaler.data_min[1] = predictor.scaler.data_min[ci]
               /\ predictor.target_scaler.data_range[1] = predictor.scaler.data_range[ci]
               /\ predictor.target_scaler.data_min[1] = SetMin(col)
               /\ predictor.target_scaler.data_range[1] = SetMax(col) - SetMin(col)
               /\ \A v \in 0..Grid :
                     InverseValue(predictor.target_scaler, 1, v)
                        = InverseValue(predictor.scaler, ci, v)

\* a frame whose Close column is second and has another range than the first
C28_Witness ==
    /\ last.op = "prepare_data"
    /\ last.err = "none"
    /\ ClosePosition = 2
    /\ predictor.scaler.data_range[1] # predictor.scaler.data_range[2]
    /\ predictor.target_scaler.data_range[1] = predictor.scaler.data_range[2]

----------------------------------------------------------------------------
(* Claims about st.session_state, checked under SessionSpec *)

\* C23: on every run in which a forecast is displayed, the forecast and its
\* dates were computed from the data of the currently selected ticker and
\* history period: no forecast of one ticker is shown against the current
\* price of another.
C23_ForecastOfSelectedTicker ==
    "forecast_shown" \in app.ui
        => /\ app.session.has
           /\ app.session.ticker = app.ticker
           /\ app.session.period = app.period

\* the train handler of this run has ended
Handled == app.train.clicked /\ app.pc = "done"

\* C24: the stored forecast and future_dates are updated together: a
\* successful train-and-predict replaces both with sequences of the same
\* length N; a failure is caught, reported as an error, and leaves both as
\* they were (both absent, or both the previous pair).
C24_ForecastStoredAtomically ==
    /\ app.session.has
          => Len(app.session.forecast) = Len(app.session.future_dates)
    /\ (Handled /\ app.train.err = "none")
          => /\ app.session.has
             /\ Len(app.session.forecast) = app.forecast_days
             /\ Len(app.session.future_dates) = app.forecast_days
             /\ app.session.ticker = app.ticker
    /\ (app.train.clicked /\ app.train.err # "none")
          => /\ app.session = app.session_before
             /\ "error_ai_engine" \in app.ui
             /\ app.exception = "none"
             /\ app.pc = "done"

\* a run whose training failed while the session held an earlier forecast
C24_Witness ==
    /\ Handled
    /\ app.train.err # "none"
    /\ app.session_before.has
    /\ app.session = app.session_before
    /\ Len(app.session.forecast) = Len(app.session.future_dates)

----------------------------------------------------------------------------
(* Claims about the news tab and the news table, checked under AppSpec *)

\* the run has a non-empty table of scored articles
HasScoredNews == ~app.sentiment_df.none /\ app.sentiment_df.rows # <<>>

\* C25: for every non-empty processed article set, including one in which
\* every article is untrusted, the news summary (overall sentiment and the
\* positive/negative/neutral shares of verified news) completes without
\* raising an error.
C25_SummaryCompletes ==
    HasScoredNews
        => /\ app.exception # "ZeroDivisionError"
           /\ app.pc \in {"tab3", "done"} => app.summary.computed

\* C26: process_news_with_finbert returns one row per input article, in
\* input order; sentiment_score and label of row i come from the text of
\* article i (headline and summary), is_trusted and fake_confidence of row i
\* from the headline of article i.
C26_RowsFollowArticles ==
    app.news_call.returned
        => /\ Len(app.sentiment_df.rows) = Len(app.raw_news)
           /\ \A i \in 1..Len(app.raw_news) :
                LET article == app.raw_news[i]
                    row == app.sentiment_df.rows[i]
                    probs == FinbertProbs(<<article.headline, article.summary>>)
                    d == DetectFakeNews(article.headline)
                IN  /\ row.title = article.headline
                    /\ row.summary = article.summary
                    /\ row.sentiment_score = probs.pos - probs.neg
                    /\ row.label = SentimentLabel(probs.pos - probs.neg)
                    /\ row.is_trusted = IsTrusted(d.label, d.confidence)
                    /\ row.fake_confidence = d.confidence

\* two articles scored that differ in every derived column
C26_Witness ==
    /\ app.news_call.returned
    /\ Len(app.raw_news) = 2
    /\ Len(app.sentiment_df.rows) = 2
    /\ app.sentiment_df.rows[1].sentiment_score # app.sentiment_df.rows[2].sentiment_score
    /\ app.sentiment_df.rows[1].label # app.sentiment_df.rows[2].label
    /\ app.sentiment_df.rows[1].is_trusted # app.sentiment_df.rows[2].is_trusted
    /\ app.sentiment_df.rows[1].fake_confidence # app.sentiment_df.rows[2].fake_confidence

----------------------------------------------------------------------------
(* Claims about single calls, checked under UnitSpec *)

\* C29: detect_fake_news returns REAL iff the real-class probability is
\* strictly greater than the fake-class probability (a tie yields FAKE), and
\* the confidence is the larger of the two probabilities, never below 0.5.
C29_LabelAndConfidence ==
    last.op = "detect_fake_news"
        => LET pr == last.probs
               larger == IF pr.real >= pr.fake THEN pr.real ELSE pr.fake
           IN  /\ last.result.label \in {"REAL", "FAKE"}
               /\ last.result.label = "REAL" <=> pr.real > pr.fake
               /\ last.result.confidence = larger
               /\ 2 * last.result.confidence >= ProbSteps

\* a tie of the two probabilities, labelled FAKE with confidence one half
C29_Witness ==
    /\ last.op = "detect_fake_news"
    /\ last.probs.real = last.probs.fake
    /\ last.result.label = "FAKE"
    /\ 2 * last.result.confidence = ProbSteps

\* C30: fetch_finnhub_news returns at most NewsLimit (10 in the code)
\* articles for every outcome of the two providers: the first NewsLimit
\* items of the primary list, or what the fallback made of the first
\* NewsLimit titles.
C30_AtMostLimit ==
    last.op = "fetch_finnhub_news"
        => /\ Len(last.result) <= NewsLimit
           /\ (last.primary.kind = "list" /\ last.primary.items # <<>>)
                 => \A i \in 1..Len(last.result) :
                        last.result[i] = last.primary.items[i]
           /\ (last.primary.kind # "list" \/ last.primary.items = <<>>)
                 => \A i \in 1..Len(last.result) :
                        last.result[i].headline = last.secondary.titles[i]

\* a source cut short: a primary list longer than the limit, or a fallback
\* list longer than the limit, each returned as NewsLimit articles
C30_Witness ==
    /\ last.op = "fetch_finnhub_news"
    /\ Len(last.result) = NewsLimit
    /\ \/ Len(last.primary.items) > NewsLimit
       \/ (last.primary.kind = "raise" /\ Len(last.secondary.titles) > NewsLimit)

====
